---- MODULE Spec2Model ----
(***************************************************************************)
(* Chunk-parser state machine of tezedge-recorder                          *)
(* (connection/chunk_parser/state.rs) together with the chunk buffer, the  *)
(* session key and the connection coordinator it is driven by.             *)
(***************************************************************************)
EXTENDS Integers, Sequences, FiniteSets, TLC

(***************************************************************************)
(* Byte strings.  A Vec<u8> / &[u8] is kept run-length encoded: a sequence *)
(* of <<value, count>> runs, never two adjacent runs of the same value and *)
(* never an empty run, so that equal byte strings are equal values.        *)
(***************************************************************************)
Rep(v, n) == IF n <= 0 THEN <<>> ELSE << <<v, n>> >>

RECURSIVE BLen(_)
BLen(s) == IF s = <<>> THEN 0 ELSE s[1][2] + BLen(Tail(s))

BCat(a, b) ==
    IF a = <<>> THEN b
    ELSE IF b = <<>> THEN a
    ELSE IF a[Len(a)][1] = b[1][1]
         THEN SubSeq(a, 1, Len(a) - 1)
                \o << <<b[1][1], a[Len(a)][2] + b[1][2]>> >>
                \o Tail(b)
         ELSE a \o b

RECURSIVE BTake(_, _)
BTake(s, n) ==
    IF n <= 0 \/ s = <<>> THEN <<>>
    ELSE IF s[1][2] <= n THEN <<s[1]>> \o BTake(Tail(s), n - s[1][2])
    ELSE << <<s[1][1], n>> >>

RECURSIVE BDrop(_, _)
BDrop(s, n) ==
    IF n <= 0 \/ s = <<>> THEN s
    ELSE IF s[1][2] <= n THEN BDrop(Tail(s), n - s[1][2])
    ELSE << <<s[1][1], s[1][2] - n>> >> \o Tail(s)

\* s[i], 0-based; i < BLen(s)
RECURSIVE BAt(_, _)
BAt(s, i) == IF i < s[1][2] THEN s[1][1] ELSE BAt(Tail(s), i - s[1][2])

\* s[from..to]
BSlice(s, from, to) == BTake(BDrop(s, from), to - from)

\* Option<T>
None == <<>>
Some(x) == <<x>>

Local == "local"
Remote == "remote"
Dirs == {Local, Remote}
Other(d) == IF d = Local THEN Remote ELSE Local
\* S::BOOL of the direction tag: Remote is the incoming half
Incoming(d) == d = Remote

(***************************************************************************)
(* Buffer: per-direction reassembly (byte accumulator and chunk counter).  *)
(***************************************************************************)
Buffer_default == [bytes |-> <<>>, counter |-> 0]

Buffer_handle_data(b, payload) == [b EXCEPT !.bytes = BCat(@, payload)]

Buffer_remaining(b) == BLen(b.bytes)

\* total size L + 2 of the chunk announced by the 2-byte big-endian length
FrameLen(bytes) == 2 + 256 * BAt(bytes, 0) + BAt(bytes, 1)

Buffer_have_chunk(b) ==
    IF BLen(b.bytes) >= 2 /\ BLen(b.bytes) >= FrameLen(b.bytes)
    THEN Some(BTake(b.bytes, FrameLen(b.bytes)))
    ELSE None

Buffer_next(b) ==
    IF Buffer_have_chunk(b) = None
    THEN [buf |-> b, out |-> None]
    ELSE [buf |-> [bytes |-> BDrop(b.bytes, FrameLen(b.bytes)),
                   counter |-> b.counter + 1],
          out |-> Some(<<b.counter, BTake(b.bytes, FrameLen(b.bytes))>>)]

Buffer_cleanup(b) ==
    IF b.bytes = <<>>
    THEN [buf |-> b, out |-> None]
    ELSE [buf |-> [bytes |-> <<>>, counter |-> b.counter + 1],
          out |-> Some(<<b.counter, b.bytes>>)]

(***************************************************************************)
(* Session keys.  A key is tied to its direction and carries the nonce     *)
(* counter.  A chunk authenticates under a key when the first byte of its  *)
(* payload is the tag of (direction, nonce); the rest is the plaintext.    *)
(***************************************************************************)
NoKey == [dir |-> "none", nonce |-> 0]

Mac(dir, nonce) == (IF dir = Local THEN 100 ELSE 200) + nonce

Key_decrypt(key, bytes) ==
    LET payload == BDrop(bytes, 2) IN
    IF BLen(payload) >= 1 /\ BAt(payload, 0) = Mac(key.dir, key.nonce)
    THEN [ok |-> TRUE, plain |-> BDrop(payload, 1),
          key |-> [key EXCEPT !.nonce = @ + 1]]
    ELSE [ok |-> FALSE, plain |-> <<>>, key |-> key]

\* Keys::new: the verdict of the key-derivation primitive is an input (accept)
Keys_new(local_chunk, remote_chunk, accept) ==
    IF accept
    THEN Some([local |-> [dir |-> Local, nonce |-> 0],
               remote |-> [dir |-> Remote, nonce |-> 0]])
    ELSE None

\* crypto::proof_of_work::check_proof_of_work: a stamp holding a zero byte
\* does not reach the target
check_proof_of_work(slice, target) == \A i \in 1..Len(slice) : slice[i][1] # 0

(***************************************************************************)
(* connection::Item: the peer key and the comment record.                  *)
(***************************************************************************)
Connection_default ==
    [peer_pk |-> None,
     outgoing_too_short |-> None, incoming_too_short |-> None,
     outgoing_wrong_pow |-> None, incoming_wrong_pow |-> None,
     outgoing_wrong_pk |-> FALSE,
     outgoing_cannot_decrypt |-> None, incoming_cannot_decrypt |-> None,
     outgoing_uncertain |-> FALSE, incoming_uncertain |-> FALSE]

(***************************************************************************)
(* state.rs: Inner<S> and the seven states.  A half is                     *)
(*   [state, cn, buffer, key, error]                                       *)
(* and the handlers return the new half with the chunk they emit.          *)
(***************************************************************************)
PreHandshakeLimit == 131072
MinCmLen == 88
PowTarget == 26

Inner_chunk(d, counter, bytes, plain) ==
    [sender |-> d, counter |-> counter, bytes |-> bytes, plain |-> plain]

Inner_handle_data(h, payload) ==
    [h EXCEPT !.buffer = Buffer_handle_data(@, payload)]

\* cleanup passing the flushed bytes on as plaintext
Inner_cleanup_WithPlain(d, h) ==
    LET r == Buffer_cleanup(h.buffer) IN
    [half  |-> [h EXCEPT !.buffer = r.buf],
     chunk |-> IF r.out = None THEN None
               ELSE Some(Inner_chunk(d, r.out[1][1], r.out[1][2], r.out[1][2]))]
\* cleanup emitting a record, and advancing the counter, on an empty buffer too
Inner_cleanup_EmptyFlush(d, h) ==
    [half  |-> [h EXCEPT !.buffer = [bytes |-> <<>>, counter |-> @.counter + 1]],
     chunk |-> Some(Inner_chunk(d, h.buffer.counter, h.buffer.bytes, <<>>))]
Inner_cleanup(d, h) ==
    LET r == Buffer_cleanup(h.buffer) IN
    [half  |-> [h EXCEPT !.buffer = r.buf],
     chunk |-> IF r.out = None THEN None
               ELSE Some(Inner_chunk(d, r.out[1][1], r.out[1][2], <<>>))]

Initial_new(cn) ==
    [state |-> "Initial", cn |-> cn, buffer |-> Buffer_default,
     key |-> NoKey, error |-> None]

Uncertain_new(d, h) ==
    LET c == Inner_cleanup(d, h) IN
    [half  |-> [c.half EXCEPT
                  !.state = "Uncertain", !.key = NoKey, !.error = None,
                  !.cn = IF Incoming(d)
                         THEN [@ EXCEPT !.incoming_uncertain = TRUE]
                         ELSE [@ EXCEPT !.outgoing_uncertain = TRUE]],
     chunk |-> c.chunk]

Initial_uncertain(d, h) == Uncertain_new(d, h)

Initial_handle_data(h, payload) ==
    LET n == Inner_handle_data(h, payload) IN
    IF Buffer_have_chunk(n.buffer) # None
    THEN [n EXCEPT !.state = "HaveCm"]
    ELSE n

HaveCm_handle_data(d, h, payload) ==
    IF Buffer_remaining(h.buffer) > PreHandshakeLimit
    THEN Uncertain_new(d, h)
    ELSE [half |-> Inner_handle_data(h, payload), chunk |-> None]

\* have_key taking the whole buffer instead of the first chunk
HaveCm_have_key_WholeBuffer(d, h, key) ==
    LET r == Buffer_cleanup(h.buffer)
        counter == r.out[1][1]
        bytes == r.out[1][2]
        plain == BDrop(bytes, 2)
    IN  [half  |-> [h EXCEPT !.buffer = r.buf, !.state = "HaveKey", !.key = key],
         chunk |-> Inner_chunk(d, counter, bytes, plain)]

\* have_key keeping the length prefix in the plaintext
HaveCm_have_key_RawPlain(d, h, key) ==
    LET r == Buffer_next(h.buffer)
        counter == r.out[1][1]
        bytes == r.out[1][2]
        plain == bytes
    IN  [half  |-> [h EXCEPT !.buffer = r.buf, !.state = "HaveKey", !.key = key],
         chunk |-> Inner_chunk(d, counter, bytes, plain)]

HaveCm_have_key(d, h, key) ==
    LET r == Buffer_next(h.buffer)
        counter == r.out[1][1]
        bytes == r.out[1][2]
        plain == BDrop(bytes, 2)
    IN  [half  |-> [h EXCEPT !.buffer = r.buf, !.state = "HaveKey", !.key = key],
         chunk |-> Inner_chunk(d, counter, bytes, plain)]

\* have_not_key passing the half on as if it had a key
HaveCm_have_not_key_AsHaveKey(d, h) ==
    LET c == Inner_cleanup(d, h) IN
    [half |-> [c.half EXCEPT !.state = "HaveKey"], chunk |-> c.chunk]
\* have_not_key leaving the half in HaveCm
HaveCm_have_not_key_Stay(d, h) ==
    LET c == Inner_cleanup(d, h) IN
    [half |-> [c.half EXCEPT !.state = "HaveCm"], chunk |-> c.chunk]

HaveCm_have_not_key(d, h) ==
    LET c == Inner_cleanup(d, h) IN
    [half |-> [c.half EXCEPT !.state = "HaveNotKey"], chunk |-> c.chunk]

\* the closure `check` of make_key
check(payload) ==
    IF BLen(payload) <= MinCmLen
    THEN [tag |-> "ConnectionMessageTooShort", v |-> BLen(payload)]
    ELSE IF ~check_proof_of_work(BSlice(payload, 4, 60), PowTarget)
    THEN [tag |-> "PowInvalid", v |-> PowTarget]
    ELSE [tag |-> "Ok", v |-> BSlice(payload, 4, 36)]

\* make_key handing the local key to both halves
make_key_SharedKey(self, peer, accept) ==
    IF Buffer_have_chunk(self.buffer) = None \/ Buffer_have_chunk(peer.buffer) = None
    THEN [panic |-> TRUE]
    ELSE
    LET keys == Keys_new(Buffer_have_chunk(self.buffer)[1],
                         Buffer_have_chunk(peer.buffer)[1], accept)
    IN
    IF keys # None
    THEN LET l == HaveCm_have_key(Local, self, keys[1].local)
             r == HaveCm_have_key(Remote, peer, keys[1].local)
         IN  [panic |-> FALSE, cn |-> self.cn, ok |-> TRUE,
              local |-> l.half, l_chunk |-> Some(l.chunk),
              remote |-> r.half, r_chunk |-> Some(r.chunk)]
    ELSE LET l == HaveCm_have_not_key(Local, self)
             r == HaveCm_have_not_key(Remote, peer)
         IN  [panic |-> FALSE,
              cn |-> [self.cn EXCEPT !.outgoing_wrong_pk = TRUE], ok |-> FALSE,
              local |-> l.half, l_chunk |-> l.chunk,
              remote |-> r.half, r_chunk |-> r.chunk]
\* `panic` is the unwrap of have_chunk() on a half without a complete chunk
make_key(self, peer, accept) ==
    IF Buffer_have_chunk(self.buffer) = None \/ Buffer_have_chunk(peer.buffer) = None
    THEN [panic |-> TRUE]
    ELSE
    LET local_chunk == Buffer_have_chunk(self.buffer)[1]
        remote_chunk == Buffer_have_chunk(peer.buffer)[1]
        cn == self.cn
        keys == Keys_new(local_chunk, remote_chunk, accept)
    IN
    IF keys # None
    THEN LET l == HaveCm_have_key(Local, self, keys[1].local)
             r == HaveCm_have_key(Remote, peer, keys[1].remote)
             lc == check(l.chunk.bytes)
             rc == check(r.chunk.bytes)
             cn1 == IF lc.tag = "ConnectionMessageTooShort"
                    THEN [cn EXCEPT !.outgoing_too_short = Some(lc.v)]
                    ELSE IF lc.tag = "PowInvalid"
                    THEN [cn EXCEPT !.outgoing_wrong_pow = Some(lc.v)]
                    ELSE cn
             cn2 == IF rc.tag = "Ok"
                    THEN [cn1 EXCEPT !.peer_pk = Some(rc.v)]
                    ELSE IF rc.tag = "ConnectionMessageTooShort"
                    THEN [cn1 EXCEPT !.incoming_too_short = Some(rc.v)]
                    ELSE [cn1 EXCEPT !.incoming_wrong_pow = Some(rc.v)]
         IN  [panic |-> FALSE, cn |-> cn2, ok |-> TRUE,
              local |-> l.half, l_chunk |-> Some(l.chunk),
              remote |-> r.half, r_chunk |-> Some(r.chunk)]
    ELSE LET l == HaveCm_have_not_key(Local, self)
             r == HaveCm_have_not_key(Remote, peer)
         IN  [panic |-> FALSE,
              cn |-> [cn EXCEPT !.outgoing_wrong_pk = TRUE], ok |-> FALSE,
              local |-> l.half, l_chunk |-> l.chunk,
              remote |-> r.half, r_chunk |-> r.chunk]

\* Uncertain, HaveNotKey and CannotDecrypt share one handle_data: buffer the
\* payload, flush the buffer and unwrap the flushed chunk.  `panic` is the
\* debug_assert on the payload (debug build) or the unwrap of None (release)
\* handle_data of Uncertain buffering the payload without flushing it
Uncertain_handle_data_Hold(d, h, payload) ==
    [half |-> Inner_handle_data(h, payload), chunk |-> None, panic |-> FALSE]
Uncertain_handle_data(d, h, payload) ==
    LET c == Inner_cleanup(d, Inner_handle_data(h, payload)) IN
    [half |-> c.half, chunk |-> c.chunk,
     panic |-> payload = <<>> \/ c.chunk = None]

\* handle_data of HaveNotKey buffering the payload without flushing it
HaveNotKey_handle_data_Hold(d, h, payload) ==
    [half |-> Inner_handle_data(h, payload), chunk |-> None, panic |-> FALSE]
HaveNotKey_handle_data(d, h, payload) ==
    LET c == Inner_cleanup(d, Inner_handle_data(h, payload)) IN
    [half |-> c.half, chunk |-> c.chunk,
     panic |-> payload = <<>> \/ c.chunk = None]

\* handle_data of CannotDecrypt going back to HaveKey
CannotDecrypt_handle_data_Recover(d, h, payload) ==
    LET c == Inner_cleanup(d, Inner_handle_data(h, payload)) IN
    [half |-> [c.half EXCEPT !.state = "HaveKey"], chunk |-> c.chunk,
     panic |-> payload = <<>> \/ c.chunk = None]
CannotDecrypt_handle_data(d, h, payload) ==
    LET c == Inner_cleanup(d, Inner_handle_data(h, payload)) IN
    [half |-> c.half, chunk |-> c.chunk,
     panic |-> payload = <<>> \/ c.chunk = None]

\* handle_data overwriting the buffered fragment instead of appending to it
HaveKey_handle_data_Replace(h, payload) ==
    [h EXCEPT !.buffer.bytes = payload, !.state = "HaveData", !.error = None]

HaveKey_handle_data(h, payload) ==
    [Inner_handle_data(h, payload) EXCEPT !.state = "HaveData", !.error = None]

\* next decrypting with a copy of the key: the nonce never advances
HaveData_next_StaleNonce(d, h) ==
    IF h.error # None
    THEN [half |-> h, chunk |-> None, attempt |-> None]
    ELSE
    LET r == Buffer_next(h.buffer) IN
    IF r.out = None
    THEN [half |-> h, chunk |-> None, attempt |-> None]
    ELSE
    LET counter == r.out[1][1]
        bytes == r.out[1][2]
        dec == Key_decrypt(h.key, bytes)
        att == Some([counter |-> counter, bytes |-> bytes, key |-> h.key,
                     ok |-> dec.ok])
    IN  IF dec.ok
        THEN [half  |-> [h EXCEPT !.buffer = r.buf],
              chunk |-> Some(Inner_chunk(d, counter, bytes, dec.plain)),
              attempt |-> att]
        ELSE LET c == Inner_cleanup(d, [h EXCEPT !.buffer = r.buf,
                                                 !.error = Some(counter)])
             IN  [half |-> c.half, chunk |-> c.chunk, attempt |-> att]

\* Iterator::next of HaveData; `attempt` reports the call of key.decrypt, if any
HaveData_next(d, h) ==
    IF h.error # None
    THEN [half |-> h, chunk |-> None, attempt |-> None]
    ELSE
    LET r == Buffer_next(h.buffer) IN
    IF r.out = None
    THEN [half |-> h, chunk |-> None, attempt |-> None]
    ELSE
    LET counter == r.out[1][1]
        bytes == r.out[1][2]
        dec == Key_decrypt(h.key, bytes)
        att == Some([counter |-> counter, bytes |-> bytes, key |-> h.key,
                     ok |-> dec.ok])
    IN  IF dec.ok
        THEN [half  |-> [h EXCEPT !.buffer = r.buf, !.key = dec.key],
              chunk |-> Some(Inner_chunk(d, counter, bytes, dec.plain)),
              attempt |-> att]
        ELSE LET c == Inner_cleanup(d, [h EXCEPT !.buffer = r.buf,
                                                 !.error = Some(counter)])
             IN  [half |-> c.half, chunk |-> c.chunk, attempt |-> att]

\* over handing back the key as derived, its nonce rewound
HaveData_over_FreshKey(d, h) ==
    IF h.error # None
    THEN LET cn == IF Incoming(d)
                   THEN [h.cn EXCEPT !.incoming_cannot_decrypt = h.error]
                   ELSE [h.cn EXCEPT !.outgoing_cannot_decrypt = h.error]
         IN  [half |-> [h EXCEPT !.state = "CannotDecrypt", !.cn = cn,
                                 !.key = NoKey, !.error = None],
              cn |-> Some(cn)]
    ELSE [half |-> [h EXCEPT !.state = "HaveKey", !.key.nonce = 0], cn |-> None]
\* over stamping the comment of the other direction
HaveData_over_WrongSide(d, h) ==
    IF h.error # None
    THEN LET cn == IF Incoming(d)
                   THEN [h.cn EXCEPT !.outgoing_cannot_decrypt = h.error]
                   ELSE [h.cn EXCEPT !.incoming_cannot_decrypt = h.error]
         IN  [half |-> [h EXCEPT !.state = "CannotDecrypt", !.cn = cn,
                                 !.key = NoKey, !.error = None],
              cn |-> Some(cn)]
    ELSE [half |-> [h EXCEPT !.state = "HaveKey"], cn |-> None]
\* over forgetting the error and handing the key back
HaveData_over_Forgiving(d, h) ==
    [half |-> [h EXCEPT !.state = "HaveKey", !.error = None], cn |-> None]

HaveData_over(d, h) ==
    IF h.error # None
    THEN LET cn == IF Incoming(d)
                   THEN [h.cn EXCEPT !.incoming_cannot_decrypt = h.error]
                   ELSE [h.cn EXCEPT !.outgoing_cannot_decrypt = h.error]
         IN  [half |-> [h EXCEPT !.state = "CannotDecrypt", !.cn = cn,
                                 !.key = NoKey, !.error = None],
              cn |-> Some(cn)]
    ELSE [half |-> [h EXCEPT !.state = "HaveKey"], cn |-> None]

(***************************************************************************)
(* The connection coordinator.  A connection is                            *)
(*   [half, emitted, cnOut, decLog, makeKeyCalls, panicked]                *)
(* half[d] is the state of direction d; emitted[d] the chunk records       *)
(* handed to the sink for d, in emission order; cnOut the Connection       *)
(* records the core returned; decLog[d] the calls of key.decrypt on d;     *)
(* panicked is set when a handler panicked (the process is gone).          *)
(***************************************************************************)
TerminalEmit == {"Uncertain", "HaveNotKey", "CannotDecrypt"}

Connection_new ==
    [half |-> [d \in Dirs |-> Initial_new(Connection_default)],
     emitted |-> [d \in Dirs |-> <<>>],
     cnOut |-> <<>>,
     decLog |-> [d \in Dirs |-> <<>>],
     makeKeyCalls |-> 0,
     panicked |-> FALSE]

\* the caller's loop over HaveData: next() until it returns None
RECURSIVE Drain(_, _, _, _)
Drain(d, h, chunks, log) ==
    LET r == HaveData_next(d, h) IN
    IF r.chunk = None
    THEN [half |-> r.half, chunks |-> chunks, log |-> log \o r.attempt]
    ELSE Drain(d, r.half, chunks \o r.chunk, log \o r.attempt)

\* route a payload to the current state of half d
Route(c, d, payload) ==
    LET h == c.half[d] IN
    CASE h.state = "Initial" ->
           [c EXCEPT !.half[d] = Initial_handle_data(h, payload)]
      [] h.state = "HaveCm" ->
           LET r == HaveCm_handle_data(d, h, payload) IN
           [c EXCEPT !.half[d] = r.half,
                     !.emitted[d] = @ \o r.chunk,
                     !.cnOut = IF r.half.state = "Uncertain"
                               THEN Append(@, [by |-> d, cn |-> r.half.cn])
                               ELSE @]
      [] h.state = "HaveKey" ->
           LET it == Drain(d, HaveKey_handle_data(h, payload), <<>>, <<>>)
               o == HaveData_over(d, it.half)
           IN  [c EXCEPT !.half[d] = o.half,
                         !.emitted[d] = @ \o it.chunks,
                         !.decLog[d] = @ \o it.log,
                         !.cnOut = IF o.cn = None THEN @
                                   ELSE Append(@, [by |-> d, cn |-> o.cn[1]])]
      [] h.state = "Uncertain" ->
           LET r == Uncertain_handle_data(d, h, payload) IN
           IF r.panic THEN [c EXCEPT !.panicked = TRUE]
           ELSE [c EXCEPT !.half[d] = r.half, !.emitted[d] = @ \o r.chunk]
      [] h.state = "HaveNotKey" ->
           LET r == HaveNotKey_handle_data(d, h, payload) IN
           IF r.panic THEN [c EXCEPT !.panicked = TRUE]
           ELSE [c EXCEPT !.half[d] = r.half, !.emitted[d] = @ \o r.chunk]
      [] h.state = "CannotDecrypt" ->
           LET r == CannotDecrypt_handle_data(d, h, payload) IN
           IF r.panic THEN [c EXCEPT !.panicked = TRUE]
           ELSE [c EXCEPT !.half[d] = r.half, !.emitted[d] = @ \o r.chunk]

\* the single cross-direction rendezvous
Rendezvous(c, accept) ==
    IF c.half[Local].state = "HaveCm" /\ c.half[Remote].state = "HaveCm"
    THEN LET o == make_key(c.half[Local], c.half[Remote], accept) IN
         IF o.panic THEN [c EXCEPT !.panicked = TRUE] ELSE
         [c EXCEPT !.half = [d \in Dirs |-> IF d = Local THEN o.local ELSE o.remote],
                   !.emitted = [d \in Dirs |->
                       @[d] \o (IF d = Local THEN o.l_chunk ELSE o.r_chunk)],
                   !.cnOut = Append(@, [by |-> "make_key", cn |-> o.cn]),
                   !.makeKeyCalls = @ + 1]
    ELSE c

\* the coordinator looking for the rendezvous after local payloads only
on_payload_LocalOnly(c, d, payload, accept) ==
    IF d = Local THEN Rendezvous(Route(c, d, payload), accept)
    ELSE Route(c, d, payload)

on_payload(c, d, payload, accept) == Rendezvous(Route(c, d, payload), accept)

\* on close the coordinator converts the half to Uncertain with the one
\* conversion state.rs offers, Initial::uncertain; a half in any other state
\* has no operation that flushes it on demand and is dropped as it is
on_close(c, d) ==
    IF c.half[d].state = "Initial"
    THEN LET r == Initial_uncertain(d, c.half[d]) IN
         [c EXCEPT !.half[d] = r.half,
                   !.emitted[d] = @ \o r.chunk,
                   !.cnOut = Append(@, [by |-> d, cn |-> r.half.cn])]
    ELSE c

(***************************************************************************)
(* The wire.  Each peer writes a stream of chunks; the capture layer       *)
(* delivers the written bytes in order, sliced arbitrarily.                *)
(***************************************************************************)
MaxDeliver == 5

BE16(n) == BCat(Rep(n \div 256, 1), Rep(n % 256, 1))
Frame(payload) == BCat(BE16(BLen(payload)), payload)

\* what a peer writes: a connection message (well-formed, truncated, or
\* with a bad proof-of-work stamp), a chunk sealed with the direction's key
\* at the given nonce, a chunk replayed from the other direction, or a
\* long run of unframed filler
\* a well-formed connection message: 89 bytes, the public key at [4..36)
CmPublicKey == Rep(8, 32)
WellFormedCm == BCat(Rep(7, 4), BCat(CmPublicKey, Rep(7, 53)))

WireChunk(d, kind, nonce) ==
    CASE kind = "cm" -> Frame(WellFormedCm)
      [] kind = "cm_short" -> Frame(Rep(7, 50))
      [] kind = "cm_badpow" -> Frame(Rep(0, 89))
      [] kind = "enc" -> Frame(BCat(Rep(Mac(d, nonce), 1), Rep(9, 3)))
      [] kind = "bad" -> Frame(BCat(Rep(Mac(Other(d), 0), 1), Rep(9, 3)))
      [] kind = "big" -> Rep(5, PreHandshakeLimit)

\* the bytes of a stream given by the kinds of its chunks; the writer's
\* nonce advances with every sealed chunk
RECURSIVE WireStream(_, _, _)
WireStream(d, kinds, nonce) ==
    IF kinds = <<>> THEN <<>>
    ELSE BCat(WireChunk(d, Head(kinds), nonce),
              WireStream(d, Tail(kinds),
                         IF Head(kinds) = "enc" THEN nonce + 1 ELSE nonce))

\* streams of the direction under study and of its counterpart
Rich == { <<"cm", "enc", "enc">>,
          <<"cm", "enc", "bad", "enc">>,
          <<"cm", "bad">>,
          <<"cm", "big", "enc">> }
Poor == { <<"cm", "enc">>, <<"cm_short", "enc">>, <<"cm_badpow", "enc">> }
Plain == { <<"cm", "enc">> }
\* a truncated connection message followed by a chunk that will not decrypt
Stamped == { <<"cm_short", "bad">> }
Scenarios ==
    (Rich \X Plain) \cup (Plain \X Rich) \cup (Poor \X Poor)
        \cup (Stamped \X Plain)

VARIABLES
    half, emitted, cnOut, decLog, makeKeyCalls, panicked,  \* the connection
    accept,      \* verdict of the key-derivation primitive for this connection
    wire,        \* wire[d]: bytes written on d and not yet delivered
    delivered,   \* delivered[d]: all bytes delivered on d so far
    ndeliver,    \* number of non-empty payloads delivered on the connection
    closed       \* closed[d]: on_close(d) was called

vars == <<half, emitted, cnOut, decLog, makeKeyCalls, panicked, accept,
          wire, delivered, ndeliver, closed>>

(***************************************************************************)
(* The message store (storage_/store.rs) and the command text of the       *)
(* sniffer facade (bpf-common/src/facade.rs) have their own variables and  *)
(* their own specifications below; the connection leaves them alone.       *)
(***************************************************************************)
VARIABLES
    kv,          \* kv[i]: the message stored under key i, if any (Option)
    indexed,     \* keys that have secondary-index entries
    seq,         \* the shared AtomicU64 seq
    count,       \* the shared AtomicU64 count
    limit,       \* the limit of the store
    pc,          \* pc[t]: where clone t is in store_message
    index,       \* index[t]: the local `index` of clone t's call
    value,       \* value[t]: what kv.get returned in delete_message
    calls,       \* calls[t]: number of store_message calls clone t began
    returned     \* the results of the calls that returned, in return order

storeVars == <<kv, indexed, seq, count, limit, pc, index, value, calls, returned>>

VARIABLES
    cmdText,     \* the text at hand, a sequence of characters
    cmdValue,    \* the Command that was formatted, if any (Option)
    cmdResult,   \* what from_str returned for cmdText, if called (Option)
    cmdStage     \* "unused", "input", "text" or "parsed"

cmdVars == <<cmdText, cmdValue, cmdResult, cmdStage>>

allVars == <<vars, storeVars, cmdVars>>

\* no store and no command at hand
StoreUnused ==
    /\ kv = <<>> /\ indexed = {} /\ seq = 0 /\ count = 0 /\ limit = 0
    /\ pc = <<>> /\ index = <<>> /\ value = <<>> /\ calls = <<>>
    /\ returned = <<>>
CmdUnused ==
    /\ cmdText = <<>> /\ cmdValue = None /\ cmdResult = None
    /\ cmdStage = "unused"

Cur == [half |-> half, emitted |-> emitted, cnOut |-> cnOut,
        decLog |-> decLog, makeKeyCalls |-> makeKeyCalls,
        panicked |-> panicked]

Install(c) ==
    /\ half' = c.half
    /\ emitted' = c.emitted
    /\ cnOut' = c.cnOut
    /\ decLog' = c.decLog
    /\ makeKeyCalls' = c.makeKeyCalls
    /\ panicked' = c.panicked

Init ==
    /\ half = Connection_new.half
    /\ emitted = Connection_new.emitted
    /\ cnOut = Connection_new.cnOut
    /\ decLog = Connection_new.decLog
    /\ makeKeyCalls = Connection_new.makeKeyCalls
    /\ panicked = Connection_new.panicked
    /\ accept \in BOOLEAN
    /\ \E sc \in Scenarios :
         wire = [d \in Dirs |->
                   WireStream(d, IF d = Local THEN sc[1] ELSE sc[2], 0)]
    /\ delivered = [d \in Dirs |-> <<>>]
    /\ ndeliver = 0
    /\ closed = [d \in Dirs |-> FALSE]
    /\ StoreUnused
    /\ CmdUnused

\* the sizes the capture layer may cut the next payload of w to: one byte
\* (half a length prefix), the first chunk, the pre-handshake limit, all
Cuts(w) ==
    {k \in {1, PreHandshakeLimit, BLen(w)}
           \cup (IF BLen(w) >= 2 THEN {FrameLen(w)} ELSE {}) :
        1 <= k /\ k <= BLen(w)}

Deliver(d, k) ==
    /\ ~panicked
    /\ ~closed[d]
    /\ ndeliver < MaxDeliver
    /\ k \in Cuts(wire[d])
    /\ LET payload == BTake(wire[d], k) IN
       /\ Install(on_payload(Cur, d, payload, accept))
       /\ wire' = [wire EXCEPT ![d] = BDrop(@, k)]
       /\ delivered' = [delivered EXCEPT ![d] = BCat(@, payload)]
    /\ ndeliver' = ndeliver + 1
    /\ UNCHANGED <<accept, closed, storeVars, cmdVars>>

\* the capture layer hands over a payload of no bytes
DeliverEmpty(d) ==
    /\ ~panicked
    /\ ~closed[d]
    /\ Install(on_payload(Cur, d, <<>>, accept))
    /\ UNCHANGED <<accept, wire, delivered, ndeliver, closed, storeVars, cmdVars>>

Close(d) ==
    /\ ~panicked
    /\ ~closed[d]
    /\ Install(on_close(Cur, d))
    /\ closed' = [closed EXCEPT ![d] = TRUE]
    /\ UNCHANGED <<accept, wire, delivered, ndeliver, storeVars, cmdVars>>

Next ==
    \/ \E d \in Dirs : \E k \in Cuts(wire[d]) : Deliver(d, k)
    \/ \E d \in Dirs : DeliverEmpty(d)
    \/ \E d \in Dirs : Close(d)

Spec == Init /\ [][Next]_allVars

(***************************************************************************)
(* Properties.                                                             *)
(***************************************************************************)
Chunks(d) == {emitted[d][i] : i \in 1..Len(emitted[d])}
Attempts(d) == {decLog[d][i] : i \in 1..Len(decLog[d])}
Failed(d) == {a \in Attempts(d) : ~a.ok}

\* raw.len() >= 2 and raw[0..2], big-endian, is raw.len() - 2
Framed(raw) == BLen(raw) >= 2 /\ FrameLen(raw) = BLen(raw)

\* the first framed chunk of a byte stream
FirstFrame(bytes) == Buffer_have_chunk([bytes |-> bytes, counter |-> 0])

RECURSIVE ConcatRaw(_)
ConcatRaw(chunks) ==
    IF chunks = <<>> THEN <<>>
    ELSE BCat(Head(chunks).bytes, ConcatRaw(Tail(chunks)))

\* C1: on each direction the counters of the emitted chunk records are
\* 0, 1, 2, ... in emission order, with no gap and no duplicate.
C1_CountersContiguous ==
    \A d \in Dirs : \A i \in 1..Len(emitted[d]) : emitted[d][i].counter = i - 1

\* C2: when the decryption of the framed chunk with counter c fails, a
\* record with counter c, the failing chunk's bytes and empty plaintext is
\* emitted, and the direction is CannotDecrypt.
C2_FailingChunkEmitted ==
    \A d \in Dirs : \A a \in Failed(d) :
        /\ half[d].state = "CannotDecrypt"
        /\ \E c \in Chunks(d) :
              c.counter = a.counter /\ c.bytes = a.bytes /\ c.plain = <<>>

\* C3: once a direction is closed, the raw fields of its emitted records,
\* concatenated in order, are exactly the bytes delivered on it.
C3_NoByteLost ==
    \A d \in Dirs : closed[d] => ConcatRaw(emitted[d]) = delivered[d]

\* chunk i of direction d was read as a frame: it is the connection message
\* taken by have_key, or a chunk that key.decrypt accepted
KeyDerived == makeKeyCalls >= 1 /\ accept
ByHaveKey(d, i) == KeyDerived /\ i = 1
ByDecrypt(d, i) ==
    \E a \in Attempts(d) :
        a.ok /\ a.counter = emitted[d][i].counter /\ a.bytes = emitted[d][i].bytes

\* C4 (as claimed): every emitted chunk record, cleanup chunks included,
\* has raw[0..2] big-endian equal to raw.len() - 2.
C4_EveryChunkFramed ==
    \A d \in Dirs : \A c \in Chunks(d) : Framed(c.bytes)

\* C4 (amended): the chunk records read as frames - the connection message
\* emitted by have_key and every chunk decrypted successfully - have
\* raw[0..2] big-endian equal to raw.len() - 2.
C4_ReadChunksFramed ==
    \A d \in Dirs : \A i \in 1..Len(emitted[d]) :
        (ByHaveKey(d, i) \/ ByDecrypt(d, i)) => Framed(emitted[d][i].bytes)

\* a decrypted, framed chunk was emitted on a connection that also emitted a
\* cleanup chunk that is no frame
C4_Witness ==
    \E d \in Dirs : \E i \in 2..Len(emitted[d]) :
        /\ ByDecrypt(d, i)
        /\ Framed(emitted[d][i].bytes)
        /\ \E e \in Dirs : \E c \in Chunks(e) : ~Framed(c.bytes)

PostHandshake == {"HaveKey", "HaveNotKey"}
PreHandshake == {"Initial", "HaveCm"}

\* C5: make_key runs at most once per connection and only with a complete
\* connection message buffered on both halves; it moves both halves out of
\* HaveCm into HaveKey or HaveNotKey, no half enters those states otherwise,
\* and no half that left Initial/HaveCm ever returns there.
C5_SingleRendezvous ==
    /\ [](makeKeyCalls <= 1)
    /\ [][ /\ makeKeyCalls' # makeKeyCalls =>
                \A d \in Dirs :
                    /\ half[d].state \in PreHandshake
                    /\ emitted[d] = <<>>
                    /\ FirstFrame(delivered'[d]) # None
                    /\ half'[d].state \in PostHandshake
           /\ \A d \in Dirs :
                /\ half[d].state \notin PreHandshake
                     => half'[d].state \notin PreHandshake
                /\ (half'[d].state \in PostHandshake
                      /\ half[d].state \in PreHandshake)
                     => makeKeyCalls' = makeKeyCalls + 1
         ]_vars

C5_Witness ==
    /\ makeKeyCalls = 1
    /\ \E d \in Dirs : half[d].state = "CannotDecrypt"
    /\ ndeliver >= 4

\* the next payload of d delivered in one piece of k bytes, and in two pieces
\* of k1 and k - k1 bytes
Whole(d, k) == on_payload(Cur, d, BTake(wire[d], k), accept)
Split(d, k1, k) ==
    on_payload(on_payload(Cur, d, BTake(wire[d], k1), accept),
               d, BSlice(wire[d], k1, k), accept)
SplitPairs(d) ==
    {kk \in Cuts(wire[d]) \X Cuts(wire[d]) : kk[1] < kk[2]}

\* C6 (as claimed): the chunk records emitted on a direction do not depend
\* on how its byte stream is sliced into payloads.
C6_SlicingIndependent ==
    \A d \in Dirs : \A kk \in SplitPairs(d) :
        Whole(d, kk[2]).emitted[d] = Split(d, kk[1], kk[2]).emitted[d]

\* C6 (amended): slicing does not matter while the direction is framed:
\* with a session key and no decrypt failure, one payload or two give the
\* same records and the same half; before the rendezvous, with the
\* other half still Initial and the residual within the limit, any slicing
\* buffers the same bytes and emits nothing.
C6_SlicingIndependentFramed ==
    \A d \in Dirs : \A kk \in SplitPairs(d) :
        LET w == Whole(d, kk[2])
            s == Split(d, kk[1], kk[2])
        IN  /\ (half[d].state = "HaveKey" /\ w.half[d].state = "HaveKey")
                  => (w.emitted[d] = s.emitted[d] /\ w.half[d] = s.half[d])
            /\ (/\ half[d].state \in PreHandshake
                /\ half[Other(d)].state = "Initial"
                /\ Buffer_remaining(half[d].buffer) + kk[2] <= PreHandshakeLimit)
                  => (/\ w.emitted[d] = <<>>
                      /\ s.emitted[d] = <<>>
                      /\ w.half[d] = s.half[d])

\* a half with a key holds a fragment of a chunk; the next payload completes it
C6_Witness ==
    \E d \in Dirs : \E kk \in SplitPairs(d) :
        /\ half[d].state = "HaveKey"
        /\ half[d].buffer.bytes # <<>>
        /\ Whole(d, kk[2]).half[d].state = "HaveKey"
        /\ Len(Whole(d, kk[2]).emitted[d]) > Len(emitted[d])
        /\ Split(d, kk[1], kk[2]).emitted[d] = Whole(d, kk[2]).emitted[d]

\* C7: the rendezvous commutes: from a state where neither connection
\* message is complete, completing the local one and then the remote one
\* gives the same connection (halves, emitted chunks, Connection record,
\* number of key derivations) as completing them in the other order.
C7_RendezvousCommutes ==
    \A kl \in Cuts(wire[Local]) : \A kr \in Cuts(wire[Remote]) :
        LET pl == BTake(wire[Local], kl)
            pr == BTake(wire[Remote], kr)
            a == on_payload(Cur, Local, pl, accept)
            b == on_payload(Cur, Remote, pr, accept)
        IN  (/\ half[Local].state = "Initial" /\ half[Remote].state = "Initial"
             /\ a.half[Local].state = "HaveCm" /\ b.half[Remote].state = "HaveCm")
              => on_payload(a, Remote, pr, accept) = on_payload(b, Local, pl, accept)

\* both halves hold a fragment of their connection message and the payloads
\* that complete them carry further bytes; either order derives the keys
C7_Witness ==
    \E kl \in Cuts(wire[Local]) : \E kr \in Cuts(wire[Remote]) :
        LET pl == BTake(wire[Local], kl)
            pr == BTake(wire[Remote], kr)
            a == on_payload(Cur, Local, pl, accept)
            b == on_payload(Cur, Remote, pr, accept)
        IN  /\ half[Local].state = "Initial" /\ half[Remote].state = "Initial"
            /\ half[Local].buffer.bytes # <<>> /\ half[Remote].buffer.bytes # <<>>
            /\ a.half[Local].state = "HaveCm" /\ b.half[Remote].state = "HaveCm"
            /\ BLen(a.half[Local].buffer.bytes) > FrameLen(a.half[Local].buffer.bytes)
            /\ on_payload(a, Remote, pr, accept).makeKeyCalls = 1
            /\ on_payload(b, Local, pl, accept).makeKeyCalls = 1
            /\ on_payload(b, Local, pl, accept).emitted[Local] # <<>>

\* C8 (as claimed): at the rendezvous each direction emits, as counter 0, its
\* first framed chunk with plaintext raw[2..], whatever key derivation says.
C8_CmEmittedWithPlain ==
    makeKeyCalls >= 1 =>
        \A d \in Dirs :
            /\ emitted[d] # <<>>
            /\ emitted[d][1].counter = 0
            /\ Some(emitted[d][1].bytes) = FirstFrame(delivered[d])
            /\ emitted[d][1].plain = BDrop(emitted[d][1].bytes, 2)

\* C8 (amended): at the rendezvous each direction emits a record with
\* counter 0.  When key derivation succeeds it is the first framed chunk
\* with plaintext raw[2..], whatever is buffered behind it; when it fails
\* it is the cleanup of the whole buffer - the connection message and the
\* bytes behind it - with empty plaintext.
C8_CmEmitted ==
    makeKeyCalls >= 1 =>
        \A d \in Dirs :
            /\ emitted[d] # <<>>
            /\ emitted[d][1].counter = 0
            /\ FirstFrame(emitted[d][1].bytes) = FirstFrame(delivered[d])
            /\ accept => /\ Framed(emitted[d][1].bytes)
                         /\ emitted[d][1].plain = BDrop(emitted[d][1].bytes, 2)
            /\ ~accept => emitted[d][1].plain = <<>>

\* keys were derived while bytes were buffered behind a connection message
C8_Witness ==
    /\ makeKeyCalls = 1 /\ accept
    /\ \E d \in Dirs :
          /\ half[d].state = "HaveKey"
          /\ half[d].buffer.bytes # <<>>
          /\ Len(emitted[d]) = 1
          /\ emitted[d][1].plain = BDrop(emitted[d][1].bytes, 2)

\* C9: a record with non-empty plaintext is the connection message
\* (counter 0, plaintext raw[2..]) or a chunk that decrypted under the key
\* of its own direction; the key is applied to the chunks of the direction
\* in increasing counter order, once each, and its nonce is the number of
\* successful decrypts before.
C9_PlaintextAuthentic ==
    \A d \in Dirs :
        /\ \A i \in 1..Len(emitted[d]) :
              emitted[d][i].plain # <<>> =>
                  \/ /\ emitted[d][i].counter = 0
                     /\ emitted[d][i].plain = BDrop(emitted[d][i].bytes, 2)
                  \/ /\ ByDecrypt(d, i)
                     /\ emitted[d][i].counter > 0
        /\ \A i \in 1..Len(decLog[d]) :
              /\ decLog[d][i].key.dir = d
              /\ decLog[d][i].key.nonce =
                    Cardinality({j \in 1..(i - 1) : decLog[d][j].ok})
              /\ \A j \in 1..(i - 1) : decLog[d][j].counter < decLog[d][i].counter

\* two chunks of one direction decrypted, the second at nonce 1
C9_Witness ==
    \E d \in Dirs : \E i \in 1..Len(emitted[d]) :
        /\ emitted[d][i].plain # <<>>
        /\ \E a \in Attempts(d) :
              a.ok /\ a.key.nonce = 1 /\ a.counter = emitted[d][i].counter

\* C10: after a decrypt failure on a direction no further decrypt is
\* attempted on it, every record emitted on it from then on has empty
\* plaintext, and every later payload is emitted as one record carrying
\* exactly its bytes.
C10_AfterDecryptFailure ==
    /\ [](\A d \in Dirs :
            /\ \A i \in 1..(Len(decLog[d]) - 1) : decLog[d][i].ok
            /\ \A a \in Failed(d) : \A c \in Chunks(d) :
                  c.counter > a.counter => c.plain = <<>>)
    /\ [][\A d \in Dirs :
            Failed(d) # {} =>
               /\ decLog'[d] = decLog[d]
               /\ delivered'[d] # delivered[d] =>
                    /\ Len(emitted'[d]) = Len(emitted[d]) + 1
                    /\ SubSeq(emitted'[d], 1, Len(emitted[d])) = emitted[d]
                    /\ emitted'[d][Len(emitted'[d])].bytes =
                          BDrop(delivered'[d], BLen(delivered[d]))
                    /\ emitted'[d][Len(emitted'[d])].plain = <<>>
               /\ delivered'[d] = delivered[d] => emitted'[d] = emitted[d]
         ]_vars

\* a payload arrived after the failure and was emitted raw
C10_Witness ==
    \E d \in Dirs : \E a \in Failed(d) :
        /\ half[d].state = "CannotDecrypt"
        /\ emitted[d] # <<>>
        /\ emitted[d][Len(emitted[d])].counter >= a.counter + 2
        /\ emitted[d][Len(emitted[d])].plain = <<>>

\* what a step leaves alone on direction e: state variant, buffered bytes,
\* chunk counter, session key, emitted records, decrypt calls
Untouched(e) ==
    /\ half'[e].state = half[e].state
    /\ half'[e].buffer = half[e].buffer
    /\ half'[e].key = half[e].key
    /\ emitted'[e] = emitted[e]
    /\ decLog'[e] = decLog[e]

\* the records and decrypt calls direction d gained in the step
NewChunks(d) == SubSeq(emitted'[d], Len(emitted[d]) + 1, Len(emitted'[d]))
NewAttempts(d) == SubSeq(decLog'[d], Len(decLog[d]) + 1, Len(decLog'[d]))

\* C11: a step that is not the rendezvous touches one direction only: a
\* payload handled on d (decrypt failure and overflow included) leaves the
\* other direction's state variant, buffer, counter and key as they were;
\* and a direction whose peer is CannotDecrypt still decrypts under its own
\* key: a chunk sealed for it is emitted with its plaintext.
C11_OtherDirectionUntouched ==
    [][ makeKeyCalls' = makeKeyCalls =>
          /\ \E d \in Dirs : Untouched(Other(d))
          /\ \A d \in Dirs :
               /\ delivered'[d] # delivered[d] => Untouched(Other(d))
               /\ (half[Other(d)].state = "CannotDecrypt"
                     /\ half[d].state = "HaveKey")
                    => \A i \in 1..Len(NewAttempts(d)) :
                         LET a == NewAttempts(d)[i] IN
                         /\ a.key.dir = d
                         /\ a.ok = Key_decrypt([dir |-> d, nonce |-> a.key.nonce],
                                               a.bytes).ok
                         /\ a.ok => \E j \in 1..Len(NewChunks(d)) :
                                      /\ NewChunks(d)[j].counter = a.counter
                                      /\ NewChunks(d)[j].plain # <<>>
      ]_vars

\* one direction lost its key to a decrypt failure, the other one went on
\* decrypting
C11_Witness ==
    \E d \in Dirs :
        /\ half[Other(d)].state = "CannotDecrypt"
        /\ Failed(Other(d)) # {}
        /\ half[d].state = "HaveKey"
        /\ \E i \in 2..Len(emitted[d]) :
              ByDecrypt(d, i) /\ emitted[d][i].plain # <<>>

\* C12: when key derivation fails at the rendezvous, the Connection record
\* of make_key carries outgoing_wrong_pk, both halves are HaveNotKey from
\* then on, and on each direction the records are numbered 0, 1, 2, ... with
\* empty plaintext: counter 0 at the rendezvous, then one record per payload
\* carrying that payload's bytes.
C12_KeyDerivationFails ==
    /\ [](makeKeyCalls >= 1 /\ ~accept =>
            /\ \E i \in 1..Len(cnOut) :
                  cnOut[i].by = "make_key" /\ cnOut[i].cn.outgoing_wrong_pk
            /\ \A d \in Dirs :
                  /\ half[d].state = "HaveNotKey"
                  /\ half[d].buffer.bytes = <<>>
                  /\ emitted[d] # <<>>
                  /\ \A i \in 1..Len(emitted[d]) :
                        /\ emitted[d][i].counter = i - 1
                        /\ emitted[d][i].plain = <<>>)
    /\ [][ (makeKeyCalls >= 1 /\ ~accept) =>
             \A d \in Dirs :
                delivered'[d] # delivered[d] =>
                   /\ Len(NewChunks(d)) = 1
                   /\ NewChunks(d)[1].counter = Len(emitted[d])
                   /\ NewChunks(d)[1].bytes =
                         BDrop(delivered'[d], BLen(delivered[d]))
                   /\ NewChunks(d)[1].plain = <<>>
         ]_vars

\* key derivation failed and a direction emitted two payloads after it
C12_Witness ==
    /\ makeKeyCalls = 1 /\ ~accept
    /\ \E i \in 1..Len(cnOut) : cnOut[i].cn.outgoing_wrong_pk
    /\ \E d \in Dirs :
          /\ half[d].state = "HaveNotKey"
          /\ Len(emitted[d]) >= 3
          /\ emitted[d][3].counter = 2
          /\ emitted[d][3].plain = <<>>

\* the Connection records returned by make_key
MakeKeyCns == {cnOut[i].cn : i \in {j \in 1..Len(cnOut) : cnOut[j].by = "make_key"}}

\* the verdict of the soft check on the connection message of direction d
SoftCheck(d) == check(FirstFrame(delivered[d])[1])

\* C13: at the rendezvous the soft check is applied to both connection
\* messages whatever key derivation says: the Connection carries
\* *_too_short exactly when the message is too short and *_wrong_pow exactly
\* when its proof of work is bad, with key derivation succeeding or failing
\* as the primitive decides.
C13_SoftCheckIndependent ==
    \A cn \in MakeKeyCns :
        /\ (cn.outgoing_too_short # None)
              <=> (SoftCheck(Local).tag = "ConnectionMessageTooShort")
        /\ (cn.outgoing_wrong_pow # None)
              <=> (SoftCheck(Local).tag = "PowInvalid")
        /\ (cn.incoming_too_short # None)
              <=> (SoftCheck(Remote).tag = "ConnectionMessageTooShort")
        /\ (cn.incoming_wrong_pow # None)
              <=> (SoftCheck(Remote).tag = "PowInvalid")
        /\ cn.outgoing_wrong_pk <=> ~accept

\* length of the connection message of direction d after the 2-byte prefix
CmPayloadLen(d) == BLen(FirstFrame(delivered[d])[1]) - 2

\* C14: when keys are derived, a connection message is flagged *_too_short
\* exactly when its payload, counted after the 2-byte length prefix, is at
\* most 88 bytes long, and the comment records that payload length.
C14_TooShortByPayloadLength ==
    accept =>
        \A cn \in MakeKeyCns :
            /\ cn.outgoing_too_short =
                  (IF CmPayloadLen(Local) <= MinCmLen
                   THEN Some(CmPayloadLen(Local)) ELSE None)
            /\ cn.incoming_too_short =
                  (IF CmPayloadLen(Remote) <= MinCmLen
                   THEN Some(CmPayloadLen(Remote)) ELSE None)

\* C15: for a half in HaveCm, a delivery that leaves the residual within
\* 131072 bytes keeps the half in HaveCm with the payload buffered, and a
\* delivery that takes the residual to 131073 bytes or more turns the half
\* into Uncertain in that same step, stamps *_uncertain and flushes the
\* buffered bytes and the payload as one record.
C15_OverflowAtThreshold ==
    [][\A d \in Dirs :
         (/\ half[d].state = "HaveCm"
          /\ delivered'[d] # delivered[d]
          /\ makeKeyCalls' = makeKeyCalls) =>
            LET after == BCat(half[d].buffer.bytes,
                              BDrop(delivered'[d], BLen(delivered[d])))
            IN  IF BLen(after) <= PreHandshakeLimit
                THEN /\ half'[d].state = "HaveCm"
                     /\ half'[d].buffer.bytes = after
                     /\ emitted'[d] = emitted[d]
                ELSE /\ half'[d].state = "Uncertain"
                     /\ IF Incoming(d) THEN half'[d].cn.incoming_uncertain
                                       ELSE half'[d].cn.outgoing_uncertain
                     /\ half'[d].buffer.bytes = <<>>
                     /\ Len(NewChunks(d)) = 1
                     /\ NewChunks(d)[1].bytes = after
      ]_vars

C17_CleanupIdempotent ==
    \A d \in Dirs :
        LET h == half[d]
            c1 == Inner_cleanup(d, h)
            c2 == Inner_cleanup(d, c1.half)
        IN  /\ c2.chunk = None
            /\ c2.half = c1.half
            /\ h.buffer.bytes = <<>> => (c1.chunk = None /\ c1.half = h)
            /\ (h.state = "Initial" /\ h.buffer.bytes = <<>>) =>
                  LET u == Initial_uncertain(d, h) IN
                  /\ u.chunk = None
                  /\ u.half.buffer.counter = 0
                  /\ \A k \in Cuts(wire[d]) :
                        LET r == Uncertain_handle_data(d, u.half, BTake(wire[d], k))
                        IN  ~r.panic /\ r.chunk[1].counter = 0
            /\ (closed[d] /\ delivered[d] = <<>>) =>
                  /\ half[d].state = "Uncertain"
                  /\ emitted[d] = <<>>
                  /\ half[d].buffer.counter = 0

\* a direction was closed before any byte arrived on it, while the other
\* direction had traffic
C17_Witness ==
    \E d \in Dirs :
        /\ closed[d]
        /\ delivered[d] = <<>>
        /\ half[d].state = "Uncertain"
        /\ emitted[d] = <<>>
        /\ half[d].buffer.counter = 0
        /\ emitted[Other(d)] # <<>>

\* C18: no sequence of deliveries and closes makes a handler panic, whatever
\* the payloads, a payload of no bytes included.
C18_NoPanic == ~panicked

\* the comment fields that are an Option, and those that are a flag
OptionComments ==
    {"outgoing_too_short", "incoming_too_short",
     "outgoing_wrong_pow", "incoming_wrong_pow",
     "outgoing_cannot_decrypt", "incoming_cannot_decrypt"}
FlagComments == {"outgoing_wrong_pk", "outgoing_uncertain", "incoming_uncertain"}

\* every comment set in Connection record a is set, to the same value, in b
Keeps(a, b) ==
    /\ \A f \in OptionComments : a[f] # None => b[f] = a[f]
    /\ \A f \in FlagComments : a[f] => b[f]

\* C19: comments are append-only: a comment field set in a Connection
\* record the core returned is set, to the same value, in every Connection
\* record it returns later for the connection, the records of
\* HaveData::over and Uncertain::cn included.
C19_CommentsAppendOnly ==
    \A j \in 1..Len(cnOut) : \A i \in 1..(j - 1) :
        Keeps(cnOut[i].cn, cnOut[j].cn)

\* C20: a payload handled with a key and without a decrypt failure emits
\* every complete framed chunk that is buffered, in counter order, each with
\* the plaintext the key gives at its nonce; what stays buffered is an
\* incomplete fragment; and the half is HaveKey again, its key advanced by
\* the number of chunks decrypted.
C20_DrainAll ==
    [][\A d \in Dirs :
         (/\ half[d].state = "HaveKey"
          /\ half'[d].state = "HaveKey"
          /\ delivered'[d] # delivered[d]) =>
            LET input == BCat(half[d].buffer.bytes,
                              BDrop(delivered'[d], BLen(delivered[d])))
                n == Len(NewChunks(d))
            IN  /\ BCat(ConcatRaw(NewChunks(d)), half'[d].buffer.bytes) = input
                /\ Buffer_have_chunk(half'[d].buffer) = None
                /\ \A i \in 1..n :
                      LET c == NewChunks(d)[i]
                          dec == Key_decrypt(
                                   [dir |-> d,
                                    nonce |-> half[d].key.nonce + i - 1],
                                   c.bytes)
                      IN  /\ Framed(c.bytes)
                          /\ c.counter = half[d].buffer.counter + i - 1
                          /\ dec.ok
                          /\ c.plain = dec.plain
                /\ half'[d].key = [half[d].key EXCEPT !.nonce = @ + n]
                /\ half'[d].buffer.counter = half[d].buffer.counter + n
                /\ half'[d].error = None
      ]_vars

\* two chunks were decrypted on a direction although at most three payloads
\* were delivered on the connection: one payload held both chunks
C20_Witness ==
    \E d \in Dirs :
        /\ half[d].state = "HaveKey"
        /\ Len(decLog[d]) >= 2
        /\ \A i \in 1..Len(decLog[d]) : decLog[d][i].ok
        /\ Len(emitted[d]) = Len(decLog[d]) + 1
        /\ half[d].key.nonce = Len(decLog[d])
        /\ ndeliver <= 3

\* C21: in Uncertain, HaveNotKey and CannotDecrypt a payload that carries
\* bytes yields exactly one record: its raw bytes are the payload, its
\* plaintext is empty, and the buffer is empty after the call.
C21_TerminalFlush ==
    [][\A d \in Dirs :
         (half[d].state \in TerminalEmit /\ delivered'[d] # delivered[d]) =>
            /\ Len(NewChunks(d)) = 1
            /\ SubSeq(emitted'[d], 1, Len(emitted[d])) = emitted[d]
            /\ NewChunks(d)[1].bytes = BDrop(delivered'[d], BLen(delivered[d]))
            /\ NewChunks(d)[1].plain = <<>>
            /\ NewChunks(d)[1].sender = d
            /\ half'[d].buffer.bytes = <<>>
            /\ ~panicked'
      ]_vars

\* a half that overflowed into Uncertain received a payload afterwards
C21_Witness ==
    \E d \in Dirs :
        /\ half[d].state = "Uncertain"
        /\ ~closed[d]
        /\ Len(emitted[d]) >= 2
        /\ emitted[d][Len(emitted[d])].plain = <<>>
        /\ half[d].buffer.bytes = <<>>

\* the comments of direction d in Connection record cn
UncertainOf(d, cn) ==
    IF Incoming(d) THEN cn.incoming_uncertain ELSE cn.outgoing_uncertain
CannotDecryptOf(d, cn) ==
    IF Incoming(d) THEN cn.incoming_cannot_decrypt ELSE cn.outgoing_cannot_decrypt

\* the Connection records produced by the half of direction d: its own
\* copy, and the copies it returned
HalfCns(d) ==
    {half[d].cn} \cup {cnOut[i].cn : i \in {j \in 1..Len(cnOut) : cnOut[j].by = d}}

\* C22: the half of direction d stamps the comments of d only, never those
\* of the other direction: *_uncertain of d exactly when the half is
\* Uncertain, and *_cannot_decrypt of d exactly when a decrypt failed on d,
\* its value being the counter of the chunk whose decryption failed (the
\* first and only failure of the direction).
C22_CommentsOfOwnDirection ==
    \A d \in Dirs :
        /\ \A cn \in HalfCns(d) :
              /\ ~UncertainOf(Other(d), cn)
              /\ CannotDecryptOf(Other(d), cn) = None
              /\ CannotDecryptOf(d, cn) # None =>
                    /\ Failed(d) # {}
                    /\ \A a \in Attempts(d) :
                          a.counter < CannotDecryptOf(d, cn)[1] => a.ok
                    /\ \E a \in Failed(d) : a.counter = CannotDecryptOf(d, cn)[1]
        /\ UncertainOf(d, half[d].cn) <=> half[d].state = "Uncertain"
        /\ CannotDecryptOf(d, half[d].cn) # None <=> Failed(d) # {}
        /\ Failed(d) # {} =>
              \E i \in 1..Len(cnOut) :
                  cnOut[i].by = d /\ CannotDecryptOf(d, cnOut[i].cn) # None

\* a decrypt failure at counter 2, after the connection message and one
\* chunk that decrypted
C22_Witness ==
    \E d \in Dirs :
        /\ half[d].state = "CannotDecrypt"
        /\ CannotDecryptOf(d, half[d].cn) = Some(2)
        /\ \E a \in Attempts(d) : a.ok /\ a.counter = 1

\* the connection message of direction d after its 2-byte length prefix,
\* and the soft check of spec 4.B on it
CmPayload(d) == BDrop(FirstFrame(delivered[d])[1], 2)
PassesSoftCheck(d) ==
    /\ BLen(CmPayload(d)) > MinCmLen
    /\ check_proof_of_work(BSlice(CmPayload(d), 4, 60), PowTarget)

\* C23: at the rendezvous the peer public key of the Connection is bytes
\* [4..36) of the remote connection message when that message passes its
\* soft check, whatever the local one does, and is not set when the remote
\* message is too short or has a bad proof of work.
C23_PeerPkFromRemoteCm ==
    \A cn \in MakeKeyCns :
        cn.peer_pk = (IF PassesSoftCheck(Remote)
                      THEN Some(BSlice(CmPayload(Remote), 4, 36))
                      ELSE None)

\* the states a half can be in after keys were derived
Keyed == {"HaveKey", "HaveData", "CannotDecrypt"}

C25_TerminalAbsorbing ==
    /\ [](\A d \in Dirs :
            half[d].state \in TerminalEmit =>
               (half[d].key = NoKey /\ half[d].error = None))
    /\ [][\A d \in Dirs :
            half[d].state \in TerminalEmit =>
               (half'[d].state = half[d].state /\ half'[d].key = NoKey)
         ]_vars

\* after its decrypt failure a direction took another payload and was then
\* closed, while the other direction went on
C25_Witness ==
    \E d \in Dirs : \E a \in Failed(d) :
        /\ half[d].state = "CannotDecrypt"
        /\ closed[d]
        /\ emitted[d] # <<>>
        /\ emitted[d][Len(emitted[d])].counter > a.counter
        /\ Len(emitted[Other(d)]) >= 2

\* C26: when a half is Uncertain, key derivation has not run and never
\* will: the other half is Initial or HaveCm with nothing emitted, or
\* Uncertain itself, no decrypt was attempted, and no record of either
\* direction carries plaintext.
C26_UncertainBlocksRendezvous ==
    /\ [](\A d \in Dirs :
            half[d].state = "Uncertain" =>
               /\ makeKeyCalls = 0
               /\ half[Other(d)].state \in PreHandshake \cup {"Uncertain"}
               /\ half[Other(d)].state \in PreHandshake
                     => emitted[Other(d)] = <<>>
               /\ \A e \in Dirs :
                     /\ decLog[e] = <<>>
                     /\ \A c \in Chunks(e) : c.plain = <<>>)
    /\ [][\A d \in Dirs :
            half[d].state = "Uncertain" =>
               (makeKeyCalls' = 0 /\ half'[d].state = "Uncertain")
         ]_vars

\* one half overflowed into Uncertain; the other completed its connection
\* message afterwards and waits in HaveCm
C26_Witness ==
    \E d \in Dirs :
        /\ half[d].state = "Uncertain"
        /\ emitted[d] # <<>>
        /\ half[Other(d)].state = "HaveCm"
        /\ emitted[Other(d)] = <<>>
        /\ makeKeyCalls = 0

\* C27: a half resting in HaveKey has no complete framed chunk in its
\* buffer: whatever was complete, the chunks behind the connection message
\* included, has been emitted.
C27_HaveKeyDrained ==
    \A d \in Dirs :
        half[d].state = "HaveKey" => Buffer_have_chunk(half[d].buffer) = None

(***************************************************************************)
(* storage_/store.rs: Store::store_message called concurrently through     *)
(* clones of one Store.  The clones share kv, count and seq (Arc); every   *)
(* operation on kv, on the secondary indices and on an atomic is one step. *)
(***************************************************************************)
\* the number of store_message calls made in all, over all the clones
MaxCalls == 3

Clones == {"a", "b"}
Limits == {1, 2}
Keys == 0..(MaxCalls - 1)

\* the connection is not part of the store's specification
ConnectionUnused ==
    /\ half = Connection_new.half
    /\ emitted = Connection_new.emitted
    /\ cnOut = Connection_new.cnOut
    /\ decLog = Connection_new.decLog
    /\ makeKeyCalls = Connection_new.makeKeyCalls
    /\ panicked = Connection_new.panicked
    /\ accept = FALSE
    /\ wire = [d \in Dirs |-> <<>>]
    /\ delivered = [d \in Dirs |-> <<>>]
    /\ ndeliver = 0
    /\ closed = [d \in Dirs |-> FALSE]

\* Store::new, then Store::clone for every clone
Store_new(l) ==
    [kv |-> [i \in Keys |-> None], indexed |-> {}, count |-> 0, seq |-> 0,
     limit |-> l]

\* reserve_index handing out the current value without advancing seq
reserve_index_Stale(s) == [seq |-> s, index |-> s]

\* seq.fetch_add(1, SeqCst): the previous value is the index
reserve_index(s) == [seq |-> s + 1, index |-> s]

\* the message of call n of clone t
Message(t, n) == [body |-> <<t, n>>, id |-> None]

\* MessageHasId::set_id
set_id(msg, id) == [msg EXCEPT !.id = Some(id)]

StoreInit ==
    /\ ConnectionUnused
    /\ CmdUnused
    /\ \E l \in Limits :
         /\ kv = Store_new(l).kv
         /\ indexed = Store_new(l).indexed
         /\ count = Store_new(l).count
         /\ seq = Store_new(l).seq
         /\ limit = Store_new(l).limit
    /\ pc = [t \in Clones |-> "idle"]
    /\ index = [t \in Clones |-> 0]
    /\ value = [t \in Clones |-> None]
    /\ calls = [t \in Clones |-> 0]
    /\ returned = <<>>

\* store_message, lines 162-164: reserve the index and compare it to limit
StoreMessage(t) ==
    /\ pc[t] = "idle"
    /\ seq < MaxCalls
    /\ LET r == reserve_index(seq) IN
       /\ seq' = r.seq
       /\ index' = [index EXCEPT ![t] = r.index]
       /\ pc' = [pc EXCEPT ![t] = IF r.index >= limit THEN "get" ELSE "put"]
    /\ calls' = [calls EXCEPT ![t] = @ + 1]
    /\ UNCHANGED <<kv, indexed, count, limit, value, returned, vars, cmdVars>>

\* delete_message(index - limit), line 175: kv.get
DeleteGet(t) ==
    /\ pc[t] = "get"
    /\ value' = [value EXCEPT ![t] = kv[index[t] - limit]]
    /\ pc' = [pc EXCEPT ![t] = IF kv[index[t] - limit] # None
                               THEN "delete_indices" ELSE "put"]
    /\ UNCHANGED <<kv, indexed, seq, count, limit, index, calls, returned,
                   vars, cmdVars>>

\* delete_message, line 176: indices.delete_indices
DeleteIndices(t) ==
    /\ pc[t] = "delete_indices"
    /\ indexed' = indexed \ {index[t] - limit}
    /\ pc' = [pc EXCEPT ![t] = "delete"]
    /\ UNCHANGED <<kv, seq, count, limit, index, value, calls, returned,
                   vars, cmdVars>>

\* delete_message, line 177: kv.delete
DeleteKv(t) ==
    /\ pc[t] = "delete"
    /\ kv' = [kv EXCEPT ![index[t] - limit] = None]
    /\ pc' = [pc EXCEPT ![t] = "put"]
    /\ UNCHANGED <<indexed, seq, count, limit, index, value, calls, returned,
                   vars, cmdVars>>

\* store_message, lines 167-168: set_id and kv.put
Put(t) ==
    /\ pc[t] = "put"
    /\ kv' = [kv EXCEPT ![index[t]] = Some(set_id(Message(t, calls[t]), index[t]))]
    /\ pc' = [pc EXCEPT ![t] = "store_indices"]
    /\ UNCHANGED <<indexed, seq, count, limit, index, value, calls, returned,
                   vars, cmdVars>>

\* store_message, line 169: indices.store_indices
StoreIndices(t) ==
    /\ pc[t] = "store_indices"
    /\ indexed' = indexed \cup {index[t]}
    /\ pc' = [pc EXCEPT ![t] = "inc_count"]
    /\ UNCHANGED <<kv, seq, count, limit, index, value, calls, returned,
                   vars, cmdVars>>

\* store_message, lines 170-171: inc_count and return Ok(index)
ReturnOk(t) ==
    /\ pc[t] = "inc_count"
    /\ count' = count + 1
    /\ returned' = Append(returned, [by |-> t, ok |-> TRUE, index |-> index[t]])
    /\ pc' = [pc EXCEPT ![t] = "idle"]
    /\ UNCHANGED <<kv, indexed, seq, limit, index, value, calls, vars, cmdVars>>

\* a StorageError from kv or the indices: the `?` returns Err at once
ReturnErr(t) ==
    /\ pc[t] \in {"get", "delete_indices", "delete", "put", "store_indices"}
    /\ returned' = Append(returned, [by |-> t, ok |-> FALSE, index |-> index[t]])
    /\ pc' = [pc EXCEPT ![t] = "idle"]
    /\ UNCHANGED <<kv, indexed, seq, count, limit, index, value, calls,
                   vars, cmdVars>>

StoreNext ==
    \/ \E t \in Clones : StoreMessage(t)
    \/ \E t \in Clones : DeleteGet(t)
    \/ \E t \in Clones : DeleteIndices(t)
    \/ \E t \in Clones : DeleteKv(t)
    \/ \E t \in Clones : Put(t)
    \/ \E t \in Clones : StoreIndices(t)
    \/ \E t \in Clones : ReturnOk(t)
    \/ \E t \in Clones : ReturnErr(t)

StoreSpec == StoreInit /\ [][StoreNext]_allVars

\* the keys that hold a message, and the results returned so far
Stored == {i \in Keys : kv[i] # None}
Results == {returned[i] : i \in 1..Len(returned)}
Quiet == \A t \in Clones : pc[t] = "idle"
NoStorageError == \A r \in Results : r.ok

\* C28: with no storage error, when no store_message call is running the
\* store holds at most `limit` messages, those with the largest reserved
\* indices; and the message with index i is gone once the call that
\* reserved index i + limit has returned.
C28_Retention ==
    NoStorageError =>
        /\ Quiet => /\ Cardinality(Stored) <= limit
                    /\ Stored = {i \in 0..(seq - 1) : i + limit >= seq}
        /\ \A r \in Results : r.index >= limit => (r.index - limit) \notin Stored

\* the clones inside a store_message call, and every index handed out so far
Active == {t \in Clones : pc[t] # "idle"}
HandedOut == {r.index : r \in Results} \cup {index[t] : t \in Active}

\* C29: across the clones and every interleaving, the calls that return Ok
\* return pairwise distinct indices, the indices handed out are exactly
\* 0, 1, 2, ... with each reservation taking the next one, and a stored
\* message carries the index it is stored under as its id.
C29_UniqueIds ==
    /\ [](/\ \A i, j \in 1..Len(returned) :
                (i # j /\ returned[i].ok /\ returned[j].ok)
                    => returned[i].index # returned[j].index
          /\ HandedOut = 0..(seq - 1)
          /\ Len(returned) + Cardinality(Active) = seq
          /\ \A i \in Stored : kv[i][1].id = Some(i))
    /\ [][\A t \in Clones :
            (pc[t] = "idle" /\ pc'[t] # "idle")
                => (index'[t] = seq /\ seq' = seq + 1)]_allVars

\* calls made through different clones completed out of reservation order,
\* all of them Ok
C29_Witness ==
    /\ Len(returned) >= 3
    /\ NoStorageError
    /\ \E i, j \in 1..Len(returned) :
          /\ i < j
          /\ returned[i].by # returned[j].by
          /\ returned[i].index > returned[j].index

(***************************************************************************)
(* bpf-common/src/facade.rs: Command, its Display and its FromStr.  A text *)
(* is a sequence of characters.  A u32 does not fit the integers of the    *)
(* model checker, so an unsigned number is a pair of 16-bit limbs          *)
(* [hi, lo] standing for hi * 65536 + lo; a u16 has hi = 0.                *)
(***************************************************************************)
LimbBase == 65536

Num(h, l) == [hi |-> h, lo |-> l]

\* the largest hi limb of an unsigned type of the given width
MaxHi(bits) == IF bits = 16 THEN 0 ELSE LimbBase - 1

DigitChars == <<"0", "1", "2", "3", "4", "5", "6", "7", "8", "9">>

IsDigit(c) == \E i \in 1..10 : DigitChars[i] = c

to_digit(c) == (CHOOSE i \in 1..10 : DigitChars[i] = c) - 1

\* n divided by ten: quotient and remainder, by long division over the limbs
DivMod10(n) ==
    LET l == (n.hi % 10) * LimbBase + n.lo
    IN  [q |-> Num(n.hi \div 10, l \div 10), r |-> l % 10]

RECURSIVE Decimal(_)
Decimal(n) ==
    IF n.hi = 0 /\ n.lo < 10
    THEN <<DigitChars[n.lo + 1]>>
    ELSE Append(Decimal(DivMod10(n).q), DigitChars[DivMod10(n).r + 1])

\* Display of an unsigned integer: decimal digits, no sign, no leading zero
fmt_uint(n) == Decimal(n)

\* result * 10 + x with the overflow check of the width
MulAdd(n, x, bits) ==
    LET l == n.lo * 10 + x
        h == n.hi * 10 + (l \div LimbBase)
    IN  IF h > MaxHi(bits)
        THEN [ok |-> FALSE, n |-> Num(0, 0)]
        ELSE [ok |-> TRUE, n |-> Num(h, l % LimbBase)]

RECURSIVE ParseDigits(_, _, _)
ParseDigits(digits, acc, bits) ==
    IF digits = <<>> THEN [ok |-> TRUE, n |-> acc, kind |-> ""]
    ELSE IF ~IsDigit(Head(digits))
    THEN [ok |-> FALSE, n |-> Num(0, 0), kind |-> "invalid digit found in string"]
    ELSE LET m == MulAdd(acc, to_digit(Head(digits)), bits)
         IN  IF ~m.ok
             THEN [ok |-> FALSE, n |-> Num(0, 0),
                   kind |-> "number too large to fit in target type"]
             ELSE ParseDigits(Tail(digits), m.n, bits)

\* str::parse for an unsigned integer of the given width
parse(word, bits) ==
    IF word = <<>>
    THEN [ok |-> FALSE, n |-> Num(0, 0),
          kind |-> "cannot parse integer from empty string"]
    ELSE IF Len(word) = 1 /\ Head(word) \in {"+", "-"}
    THEN [ok |-> FALSE, n |-> Num(0, 0), kind |-> "invalid digit found in string"]
    ELSE IF Head(word) = "+" THEN ParseDigits(Tail(word), Num(0, 0), bits)
    ELSE ParseDigits(word, Num(0, 0), bits)

\* s.split(' '): the words between single spaces, empty words included
RECURSIVE split(_)
split(s) ==
    IF \A i \in 1..Len(s) : s[i] # " " THEN <<s>>
    ELSE LET k == CHOOSE i \in 1..Len(s) :
                      s[i] = " " /\ \A j \in 1..(i - 1) : s[j] # " "
         IN  <<SubSeq(s, 1, k - 1)>> \o split(SubSeq(s, k + 1, Len(s)))

watch_port == <<"w", "a", "t", "c", "h", "_", "p", "o", "r", "t">>
ignore_connection ==
    <<"i", "g", "n", "o", "r", "e", "_", "c", "o", "n", "n", "e", "c", "t", "i", "o", "n">>
fetch_counter == <<"f", "e", "t", "c", "h", "_", "c", "o", "u", "n", "t", "e", "r">>

WatchPort(p) == [tag |-> "WatchPort", port |-> p]
IgnoreConnection(p, f) == [tag |-> "IgnoreConnection", pid |-> p, fd |-> f]
FetchCounter == [tag |-> "FetchCounter"]

Ok(c) == [ok |-> TRUE, cmd |-> Some(c), err |-> <<>>]
Err(e) == [ok |-> FALSE, cmd |-> None, err |-> e]

\* Display writing the fd before the pid
fmt_SwapArgs(cmd) ==
    CASE cmd.tag = "WatchPort" -> watch_port \o <<" ">> \o fmt_uint(cmd.port)
      [] cmd.tag = "IgnoreConnection" ->
            ignore_connection \o <<" ">> \o fmt_uint(cmd.fd)
                \o <<" ">> \o fmt_uint(cmd.pid)
      [] cmd.tag = "FetchCounter" -> fetch_counter

\* impl fmt::Display for Command
fmt(cmd) ==
    CASE cmd.tag = "WatchPort" -> watch_port \o <<" ">> \o fmt_uint(cmd.port)
      [] cmd.tag = "IgnoreConnection" ->
            ignore_connection \o <<" ">> \o fmt_uint(cmd.pid)
                \o <<" ">> \o fmt_uint(cmd.fd)
      [] cmd.tag = "FetchCounter" -> fetch_counter

\* impl FromStr for Command
from_str(s) ==
    LET words == split(s) IN
    IF words[1] = watch_port THEN
        IF Len(words) < 2 THEN Err(<<"bad port">>)
        ELSE LET port == parse(words[2], 16) IN
             IF ~port.ok THEN Err(<<"failed to parse port: ", port.kind>>)
             ELSE Ok(WatchPort(port.n))
    ELSE IF words[1] = ignore_connection THEN
        IF Len(words) < 2 THEN Err(<<"bad pid">>)
        ELSE LET pid == parse(words[2], 32) IN
             IF ~pid.ok THEN Err(<<"failed to parse pid: ", pid.kind>>)
             ELSE IF Len(words) < 3 THEN Err(<<"bad fd">>)
             ELSE LET fd == parse(words[3], 32) IN
                  IF ~fd.ok THEN Err(<<"failed to parse fd: ", fd.kind>>)
                  ELSE Ok(IgnoreConnection(pid.n, fd.n))
    ELSE IF words[1] = fetch_counter THEN Ok(FetchCounter)
    ELSE Err(<<"unexpected command">>)

\* the inputs: commands with numbers at and around the limb and type
\* boundaries, and texts of up to MaxWords words from a vocabulary
MaxWords == 3

Ports == {Num(0, 0), Num(0, 1), Num(0, 80), Num(0, 9732), Num(0, LimbBase - 1)}
Ids == {Num(0, 0), Num(0, 7), Num(0, LimbBase - 1), Num(1, 0), Num(15, 16960),
        Num(LimbBase - 1, LimbBase - 1)}
Commands ==
    {WatchPort(p) : p \in Ports}
        \cup {IgnoreConnection(p, f) : p \in Ids, f \in Ids}
        \cup {FetchCounter}

Vocabulary ==
    {watch_port, ignore_connection, fetch_counter, <<>>, <<"8", "0">>,
     <<"+", "7">>, <<"-", "1">>, <<"x">>, <<"w", "a", "t", "c", "h">>,
     <<"6", "5", "5", "3", "6">>,
     <<"4", "2", "9", "4", "9", "6", "7", "2", "9", "6">>}

RECURSIVE Join(_)
Join(ws) ==
    IF Len(ws) = 1 THEN ws[1] ELSE ws[1] \o <<" ">> \o Join(Tail(ws))

Texts == {Join(ws) : ws \in UNION {[1..n -> Vocabulary] : n \in 1..MaxWords}}

CommandInit ==
    /\ ConnectionUnused
    /\ StoreUnused
    /\ cmdResult = None
    /\ \/ /\ cmdValue \in {Some(c) : c \in Commands}
          /\ cmdText = <<>>
          /\ cmdStage = "input"
       \/ /\ cmdValue = None
          /\ cmdText \in Texts
          /\ cmdStage = "text"

\* format!("{}", cmd)
Format ==
    /\ cmdStage = "input"
    /\ cmdText' = fmt(cmdValue[1])
    /\ cmdStage' = "text"
    /\ UNCHANGED <<cmdValue, cmdResult, vars, storeVars>>

\* text.parse::<Command>()
Parse ==
    /\ cmdStage = "text"
    /\ cmdResult' = Some(from_str(cmdText))
    /\ cmdStage' = "parsed"
    /\ UNCHANGED <<cmdValue, cmdText, vars, storeVars>>

CommandNext == Format \/ Parse

CommandSpec == CommandInit /\ [][CommandNext]_allVars

\* the text starts with the word kw: kw alone or kw followed by a space
FirstWordIs(kw, s) ==
    /\ Len(s) >= Len(kw)
    /\ SubSeq(s, 1, Len(kw)) = kw
    /\ Len(s) > Len(kw) => s[Len(kw) + 1] = " "

NumWords(s) == 1 + Cardinality({i \in 1..Len(s) : s[i] = " "})

\* C30: parsing the text that Display produces for a command gives back
\* that command; a text whose first word is none of watch_port,
\* ignore_connection and fetch_counter, or that lacks the port after
\* watch_port or the pid or fd after ignore_connection, gives an error.
C30_CommandRoundTrip ==
    cmdStage = "parsed" =>
        /\ cmdValue # None => cmdResult = Some(Ok(cmdValue[1]))
        /\ (/\ ~FirstWordIs(watch_port, cmdText)
            /\ ~FirstWordIs(ignore_connection, cmdText)
            /\ ~FirstWordIs(fetch_counter, cmdText)) => ~cmdResult[1].ok
        /\ (FirstWordIs(watch_port, cmdText) /\ NumWords(cmdText) < 2)
              => ~cmdResult[1].ok
        /\ (FirstWordIs(ignore_connection, cmdText) /\ NumWords(cmdText) < 3)
              => ~cmdResult[1].ok

\* an IgnoreConnection with the largest u32 as pid and 65536 as fd went
\* through Display and from_str
C30_Witness ==
    /\ cmdStage = "parsed"
    /\ cmdValue = Some(IgnoreConnection(Num(LimbBase - 1, LimbBase - 1), Num(1, 0)))
    /\ cmdText = ignore_connection
           \o <<" ", "4", "2", "9", "4", "9", "6", "7", "2", "9", "5">>
           \o <<" ", "6", "5", "5", "3", "6">>
    /\ cmdResult[1].ok

====
